---- MODULE Spec2Model ----
(***************************************************************************)
(* Model of app_client_light.py: the Streamlit dashboard that validates an *)
(* uploaded analysis CSV, normalises and filters its dates and renders the *)
(* statistics panels.  One behaviour of Spec is one top-to-bottom run of   *)
(* main(); the output of the page is the sequence out of st.* emissions.   *)
(***************************************************************************)
EXTENDS Integers, Sequences, FiniteSets, TLC

\* ------------------------------------------------------------------ bounds
MaxRows == 2
NumDays == 3
MaxShift == 1

\* ----------------------------------------------------------------- columns
required_columns ==
    << "theme_principal", "sous_theme", "date", "conversationId",
       "turn_count", "default_count", "feedbackPositive", "feedbackNegative" >>

OptionalColumns ==
    << "language_normalized", "is_hot_topic", "hot_topic_name",
       "urls", "device", "formulaire_data" >>

AllColumns == required_columns \o OptionalColumns

Range(s) == { s[i] : i \in DOMAIN s }

\* The columns of S as a header row, in the order of AllColumns.
HeaderOf(S) == SelectSeq(AllColumns, LAMBDA c : c \in S)

Reverse(s) == [ i \in 1..Len(s) |-> s[Len(s) + 1 - i] ]

Rotate(s, k) ==
    IF Len(s) = 0 THEN s
    ELSE [ i \in 1..Len(s) |-> s[((i - 1 + k) % Len(s)) + 1] ]

\* The header row of column set S in one of several column orders.
Ordering(S, k, reversed) ==
    IF reversed THEN Reverse(Rotate(HeaderOf(S), k)) ELSE Rotate(HeaderOf(S), k)

\* `col in df.columns`
HasColumn(df, col) == \E i \in DOMAIN df.columns : df.columns[i] = col

\* all(col in df.columns for col in required_columns), but satisfied by any one column.
is_processed_file_any(df) ==
    \E i \in DOMAIN required_columns : HasColumn(df, required_columns[i])

is_processed_file(df) ==
    \A i \in DOMAIN required_columns : HasColumn(df, required_columns[i])

\* ------------------------------------------------------------------- dates
Days == 1..NumDays
TimesOfDay == {0, 1}

\* A cell of the date column: an ISO-8601 string (kind "str"), a string that
\* is not ISO-8601 (kind "bad"), or a parsed timestamp (kind "ts").
IsoString(d, t) == [ kind |-> "str", day |-> d, time |-> t ]
BadString == [ kind |-> "bad", day |-> 0, time |-> 0 ]
RawDates == { IsoString(d, t) : d \in Days, t \in TimesOfDay } \cup { BadString }

\* pd.to_datetime(col, format='ISO8601'): raises if any cell does not parse.
to_datetime_raises(rows) == \E i \in DOMAIN rows : rows[i].date.kind = "bad"

to_datetime(rows) ==
    [ i \in DOMAIN rows |-> [ rows[i] EXCEPT !.date.kind = "ts" ] ]

\* .dt.normalize(): the time of day is set to midnight.
normalize(rows) ==
    [ i \in DOMAIN rows |-> [ rows[i] EXCEPT !.date.time = 0 ] ]

\* ------------------------------------------------------------------ tables
\* A row carries its pandas index and its date cell.
RowsOf(dates) == [ i \in DOMAIN dates |-> [ idx |-> i, date |-> dates[i] ] ]

DateSeqs(D) == UNION { [ 1..n -> D ] : n \in 0..MaxRows }

Table(cols, rows) == [ columns |-> cols, rows |-> rows ]

NoTable == Table(<< >>, << >>)

\* df.empty: no rows or no columns.
Empty(df) == Len(df.rows) = 0 \/ Len(df.columns) = 0

\* --------------------------------------------------------------- emissions
\* One st.* call: its kind, the function that made it, the message it shows
\* and the column names or exception text the message spells out.
Emit(kind, src, msg, detail) ==
    [ kind |-> kind, src |-> src, msg |-> msg, detail |-> detail ]

Info(src, msg, detail) == Emit("info", src, msg, detail)

Widgets(src, kinds) ==
    [ i \in DOMAIN kinds |-> Emit(kinds[i], src, "content", {}) ]

MissingFrom(df, cols) == { c \in cols : ~HasColumn(df, c) }

\* The result of one panel call: what it emitted, whether its computation
\* threw, whether an exception left the function, and the rows of the
\* DataFrame object it was given.
Result(out, threw, raised, rows) ==
    [ out |-> out, threw |-> threw, raised |-> raised, rows |-> rows ]

\* A return before the try block.
Return(out, rows) == Result(out, FALSE, FALSE, rows)

\* try: <before; body> except Exception: (nothing) -- the exception leaves the panel.
TryExceptReraise(src, before, body, raises, rows) ==
    IF raises
    THEN Result(before, TRUE, TRUE, rows)
    ELSE Result(before \o body, FALSE, FALSE, rows)

\* try: <before; body> except Exception: st.info(<generic message>)
TryExcept(src, before, body, raises, rows) ==
    IF raises
    THEN Result(before \o << Info(src, "error", {}) >>, TRUE, FALSE, rows)
    ELSE Result(before \o body, FALSE, FALSE, rows)

\* ------------------------------------------------------------------ panels
display_statistics(df, raises) ==
    IF Empty(df)
    THEN Return(<< Info("statistics", "empty", {}) >>, df.rows)
    ELSE IF ~HasColumn(df, "theme_principal") \/ ~HasColumn(df, "sous_theme")
    THEN Return(<< Info("statistics", "missing", {}) >>, df.rows)
    ELSE TryExcept("statistics", << >>,
                   Widgets("statistics", << "subheader", "metric", "metric", "dataframe" >>),
                   raises, df.rows)

display_conversation_metrics(df, raises) ==
    LET missing_columns == MissingFrom(df, {"date", "conversationId", "turn_count"})
    IN  IF Empty(df)
        THEN Return(<< Info("conversation", "empty", {}) >>, df.rows)
        ELSE IF missing_columns # {}
        THEN Return(<< Info("conversation", "missing", missing_columns) >>, df.rows)
        ELSE TryExcept("conversation",
                       Widgets("conversation", << "subheader" >>),
                       Widgets("conversation", << "metric", "metric", "subheader",
                                                  "dataframe", "subheader", "chart", "chart" >>),
                       raises,
                       \* df['date'] = pd.to_datetime(df['date'], ...).dt.normalize()
                       normalize(to_datetime(df.rows)))

display_default_stats(df, raises) ==
    IF Empty(df) \/ ~HasColumn(df, "default_count")
    THEN Return(<< Info("default", "empty", {}) >>, df.rows)
    ELSE TryExcept("default",
                   Widgets("default", << "subheader" >>),
                   Widgets("default", << "metric", "metric", "metric" >>)
                     \o (IF HasColumn(df, "theme_principal") /\ HasColumn(df, "sous_theme")
                         THEN Widgets("default", << "subheader", "dataframe" >>)
                         ELSE << >>),
                   raises, df.rows)

display_formulaire_stats(df, raises) ==
    IF Empty(df) \/ ~HasColumn(df, "formulaire_data")
    THEN Return(<< Info("formulaire", "empty", {}) >>, df.rows)
    ELSE TryExcept("formulaire",
                   Widgets("formulaire", << "subheader" >>),
                   Widgets("formulaire", << "dataframe", "metric", "metric", "metric" >>),
                   raises, df.rows)

display_satisfaction_metrics(df, raises) ==
    LET missing_columns == MissingFrom(df, {"feedbackPositive", "feedbackNegative"})
    IN  IF Empty(df)
        THEN Return(<< Info("satisfaction", "empty", {}) >>, df.rows)
        ELSE IF missing_columns # {}
        THEN Return(<< Info("satisfaction", "missing", missing_columns) >>, df.rows)
        ELSE TryExcept("satisfaction",
                       Widgets("satisfaction", << "subheader" >>),
                       Widgets("satisfaction", << "metric", "metric", "metric" >>)
                         \o (IF HasColumn(df, "sous_theme")
                             THEN Widgets("satisfaction", << "subheader", "dataframe", "chart",
                                                             "subheader", "dataframe", "chart" >>)
                             ELSE << >>),
                       raises, df.rows)

display_hot_topic_stats(df, raises) ==
    IF Empty(df) \/ ~HasColumn(df, "is_hot_topic") \/ ~HasColumn(df, "hot_topic_name")
    THEN Return(<< >>, df.rows)
    ELSE TryExcept("hot_topic",
                   Widgets("hot_topic", << "subheader" >>),
                   Widgets("hot_topic", << "chart", "chart", "metric", "markdown",
                                           "dataframe", "caption" >>),
                   raises, df.rows)

display_language_analysis(df, raises) ==
    IF Empty(df)
    THEN Return(<< Info("language", "empty", {}) >>, df.rows)
    ELSE IF ~HasColumn(df, "language_normalized")
    THEN Return(Widgets("language", << "subheader" >>)
                  \o << Info("language", "missing", {"language_normalized"}) >>,
                df.rows)
    ELSE TryExcept("language",
                   Widgets("language", << "subheader" >>),
                   Widgets("language", << "markdown", "chart", "markdown", "dataframe" >>)
                     \o (IF HasColumn(df, "sous_theme")
                         THEN Widgets("language", << "markdown", "markdown", "dataframe", "caption" >>)
                         ELSE << Info("language", "missing", {}) >>),
                   raises, df.rows)

display_url_and_device_stats(df, raises) ==
    LET has_urls == HasColumn(df, "urls")
        has_device == HasColumn(df, "device")
    IN  IF Empty(df)
        THEN Return(<< Info("url_device", "empty", {}) >>, df.rows)
        ELSE IF ~has_urls /\ ~has_device
        THEN Return(Widgets("url_device", << "subheader" >>)
                      \o << Info("url_device", "missing", {"urls", "device"}) >>,
                    df.rows)
        ELSE TryExcept("url_device",
                       Widgets("url_device", << "subheader" >>),
                       (IF has_urls
                        THEN Widgets("url_device", << "markdown", "dataframe", "metric", "metric" >>)
                        ELSE << Info("url_device", "missing", {"urls"}) >>)
                         \o (IF has_device
                             THEN Widgets("url_device", << "markdown", "chart", "markdown", "dataframe" >>)
                             ELSE << Info("url_device", "missing", {"device"}) >>),
                       raises, df.rows)

\* ------------------------------------------------------------------- state
VARIABLES
    pc,           \* position of the run inside main()
    file,         \* uploaded_file: what the user gave to st.file_uploader
    df,           \* the DataFrame read from the file
    date_range,   \* the tuple returned by st.date_input
    df_filtered,  \* the DataFrame handed to the panels
    valid,        \* outcome of the schema check: "unchecked", "valid", "invalid"
    exc,          \* text of the exception caught by main's handler, or "none"
    out,          \* the page: every st.* emission so far, in order
    called,       \* the panels invoked so far, in order
    failed,       \* the panels whose computation threw so far, in order
    stats,        \* the figures computed by the panel whose body is followed
    scan          \* the locals of analyze_formulaires while it runs

vars == << pc, file, df, date_range, df_filtered, valid, exc, out, called, failed, stats, scan >>

\* No panel body has been followed.
NoStats == [ outcome |-> "none" ]

\* analyze_formulaires is not running.
NoScan == [ text |-> << >> ]

\* ------------------------------------------------------------------ inputs
NoFile == [ kind |-> "none", table |-> NoTable ]
Malformed == [ kind |-> "malformed", table |-> NoTable ]
Csv(cols, rows) == [ kind |-> "csv", table |-> Table(cols, rows) ]

RequiredSet == Range(required_columns)
OptionalSet == Range(OptionalColumns)

\* Column sets of the uploaded files: every choice of optional columns next
\* to the required ones, and files that lack one required column.
ColumnChoices ==
    { RequiredSet \cup o : o \in SUBSET OptionalSet }
      \cup { RequiredSet \ {c} : c \in RequiredSet }
      \cup { (RequiredSet \ {c}) \cup OptionalSet : c \in RequiredSet }

\* Files whose rows all carry the same timestamp.
UniformDateSeqs == DateSeqs({ IsoString(1, 1) })

Files ==
    { NoFile, Malformed }
      \cup { Csv(HeaderOf(S), RowsOf(d)) : S \in ColumnChoices, d \in UniformDateSeqs }
      \cup { Csv(AllColumns, RowsOf(d)) : d \in DateSeqs(RawDates) }

\* ---------------------------------------------------------------- main()
Blank ==
    /\ df = NoTable
    /\ date_range = << >>
    /\ df_filtered = NoTable
    /\ valid = "unchecked"
    /\ exc = "none"
    /\ out = << >>
    /\ called = << >>
    /\ failed = << >>
    /\ stats = NoStats
    /\ scan = NoScan

Init ==
    /\ pc = "start"
    /\ file \in Files
    /\ Blank

MainStart ==
    /\ pc = "start"
    /\ out' = out \o Widgets("main", << "title", "write", "file_uploader" >>)
    /\ pc' = IF file.kind = "none" THEN "done" ELSE "read"
    /\ UNCHANGED << file, df, date_range, df_filtered, valid, exc, called, failed, stats, scan >>

\* df = pd.read_csv(uploaded_file)
ReadCsv ==
    /\ pc = "read"
    /\ IF file.kind = "malformed"
       THEN /\ exc' = "ParserError"
            /\ pc' = "except"
            /\ df' = df
       ELSE /\ df' = file.table
            /\ pc' = "schema"
            /\ exc' = exc
    /\ UNCHANGED << file, date_range, df_filtered, valid, out, called, failed, stats, scan >>

\* The schema check that reports the failure and then goes on.
SchemaCheckNoReturn ==
    /\ pc = "schema"
    /\ IF ~is_processed_file(df)
       THEN /\ out' = out \o << Emit("error", "main", "schema", {}),
                                Info("main", "required_columns", RequiredSet) >>
            /\ valid' = "invalid"
            /\ pc' = "parse"
       ELSE /\ out' = out
            /\ valid' = "valid"
            /\ pc' = "parse"
    /\ UNCHANGED << file, df, date_range, df_filtered, exc, called, failed, stats, scan >>

SchemaCheck ==
    /\ pc = "schema"
    /\ IF ~is_processed_file(df)
       THEN /\ out' = out \o << Emit("error", "main", "schema", {}),
                                Info("main", "required_columns", RequiredSet) >>
            /\ valid' = "invalid"
            /\ pc' = "done"
       ELSE /\ out' = out
            /\ valid' = "valid"
            /\ pc' = "parse"
    /\ UNCHANGED << file, df, date_range, df_filtered, exc, called, failed, stats, scan >>

\* Date parsing that forgets .dt.normalize().
ParseDatesNoNormalize ==
    /\ pc = "parse"
    /\ IF to_datetime_raises(df.rows)
       THEN /\ exc' = "ValueError: time data"
            /\ pc' = "except"
            /\ UNCHANGED << df, out >>
       ELSE /\ df' = [ df EXCEPT !.rows = to_datetime(df.rows) ]
            /\ out' = out \o << Emit("success", "main", "valid_file", {}),
                                Info("main", "row_count", {}),
                                Emit("markdown", "main", "filter_title", {}) >>
            /\ pc' = "date_input"
            /\ exc' = exc
    /\ UNCHANGED << file, date_range, df_filtered, valid, called, failed, stats, scan >>

\* df['date'] = pd.to_datetime(df['date'], format='ISO8601').dt.normalize()
ParseDates ==
    /\ pc = "parse"
    /\ IF to_datetime_raises(df.rows)
       THEN /\ exc' = "ValueError: time data"
            /\ pc' = "except"
            /\ UNCHANGED << df, out >>
       ELSE /\ df' = [ df EXCEPT !.rows = normalize(to_datetime(df.rows)) ]
            /\ out' = out \o << Emit("success", "main", "valid_file", {}),
                                Info("main", "row_count", {}),
                                Emit("markdown", "main", "filter_title", {}) >>
            /\ pc' = "date_input"
            /\ exc' = exc
    /\ UNCHANGED << file, date_range, df_filtered, valid, called, failed, stats, scan >>

\* df['date'].dt.date
DayOf(row) == row.date.day

RowDays(rows) == { DayOf(rows[i]) : i \in DOMAIN rows }
MinDay(rows) == CHOOSE d \in RowDays(rows) : \A e \in RowDays(rows) : d <= e
MaxDay(rows) == CHOOSE d \in RowDays(rows) : \A e \in RowDays(rows) : d >= e

\* What st.date_input can return for a range widget limited to [lo, hi].
DateRanges(lo, hi) ==
    { << >> }
      \cup { << s >> : s \in lo..hi }
      \cup UNION { { << s, e >> : e \in s..hi } : s \in lo..hi }

\* min_date / max_date and the range picker; NaT has no strftime.
DateInput ==
    /\ pc = "date_input"
    /\ IF Len(df.rows) = 0
       THEN /\ exc' = "ValueError: NaTType does not support strftime"
            /\ pc' = "except"
            /\ UNCHANGED << date_range, out >>
       ELSE /\ date_range' \in DateRanges(MinDay(df.rows), MaxDay(df.rows))
            /\ out' = Append(out, Emit("date_input", "main", "range", {}))
            /\ pc' = "filter"
            /\ exc' = exc
    /\ UNCHANGED << file, df, df_filtered, valid, called, failed, stats, scan >>

\* df[(df['date'].dt.date >= start_date) & (df['date'].dt.date < end_date)]
FilterRowsExclusive(rows, start_date, end_date) ==
    SelectSeq(rows, LAMBDA r : DayOf(r) >= start_date /\ DayOf(r) < end_date)

\* df[(df['date'].dt.date >= start_date) & (df['date'].dt.date <= end_date)]
FilterRows(rows, start_date, end_date) ==
    SelectSeq(rows, LAMBDA r : DayOf(r) >= start_date /\ DayOf(r) <= end_date)

\* An incomplete range handled by keeping no rows and telling nothing.
FilterRangeStrict ==
    /\ pc = "filter"
    /\ IF Len(date_range) = 2
       THEN /\ df_filtered' = [ df EXCEPT !.rows = FilterRows(df.rows, date_range[1], date_range[2]) ]
            /\ out' = out \o << Info("main", "filtered_count", {}),
                                Emit("markdown", "main", "dashboard_title", {}) >>
       ELSE /\ df_filtered' = [ df EXCEPT !.rows = << >> ]
            /\ out' = out \o << Emit("markdown", "main", "dashboard_title", {}) >>
    /\ pc' = "satisfaction"
    /\ UNCHANGED << file, df, date_range, valid, exc, called, failed, stats, scan >>

FilterRange ==
    /\ pc = "filter"
    /\ IF Len(date_range) = 2
       THEN /\ df_filtered' = [ df EXCEPT !.rows = FilterRows(df.rows, date_range[1], date_range[2]) ]
            /\ out' = out \o << Info("main", "filtered_count", {}),
                                Emit("markdown", "main", "dashboard_title", {}) >>
       ELSE /\ df_filtered' = df
            /\ out' = out \o << Info("main", "incomplete_range", {}),
                                Emit("markdown", "main", "dashboard_title", {}) >>
    /\ pc' = "satisfaction"
    /\ UNCHANGED << file, df, date_range, valid, exc, called, failed, stats, scan >>

\* ------------------------------------------------------- the panel calls
\* The data of at most one panel per run makes its computation raise.
RaiseChoices == IF failed # << >> THEN { FALSE } ELSE BOOLEAN

\* df_filtered = df binds both names to one object; the filter makes a new one.
SameObject == Len(date_range) # 2

\* with st.spinner(...): panel(df_filtered), when its condition holds; run
\* maps whether the panel's computation raises to the result of the call.
CallPanel(name, next, cond, run) ==
    /\ IF cond
       THEN \E raises \in RaiseChoices :
              LET r == run[raises]
              IN  /\ called' = Append(called, name)
                  /\ failed' = IF r.threw THEN Append(failed, name) ELSE failed
                  /\ out' = out \o r.out
                  /\ df_filtered' = [ df_filtered EXCEPT !.rows = r.rows ]
                  /\ df' = IF SameObject THEN [ df EXCEPT !.rows = r.rows ] ELSE df
                  /\ IF r.raised
                     THEN exc' = "PanelError" /\ pc' = "except"
                     ELSE exc' = exc /\ pc' = next
       ELSE /\ pc' = next
            /\ UNCHANGED << called, failed, out, df_filtered, df, exc >>
    /\ UNCHANGED << file, date_range, valid, stats, scan >>

CallSatisfaction ==
    /\ pc = "satisfaction"
    /\ CallPanel("satisfaction", "conversation", TRUE, [ raises \in BOOLEAN |-> display_satisfaction_metrics(df_filtered, raises) ])

CallConversation ==
    /\ pc = "conversation"
    /\ CallPanel("conversation", "url_device", TRUE, [ raises \in BOOLEAN |-> display_conversation_metrics(df_filtered, raises) ])

CallUrlDevice ==
    /\ pc = "url_device"
    /\ CallPanel("url_device", "language", TRUE, [ raises \in BOOLEAN |-> display_url_and_device_stats(df_filtered, raises) ])

CallLanguage ==
    /\ pc = "language"
    /\ CallPanel("language", "statistics", TRUE, [ raises \in BOOLEAN |-> display_language_analysis(df_filtered, raises) ])

CallStatistics ==
    /\ pc = "statistics"
    /\ CallPanel("statistics", "hot_topic", TRUE, [ raises \in BOOLEAN |-> display_statistics(df_filtered, raises) ])

\* The hot-topic call guarded by either column instead of both.
CallHotTopicEither ==
    /\ pc = "hot_topic"
    /\ CallPanel("hot_topic", "default",
              HasColumn(df_filtered, "is_hot_topic") \/ HasColumn(df_filtered, "hot_topic_name"),
              [ raises \in BOOLEAN |-> display_hot_topic_stats(df_filtered, raises) ])

CallHotTopic ==
    /\ pc = "hot_topic"
    /\ CallPanel("hot_topic", "default",
              HasColumn(df_filtered, "is_hot_topic") /\ HasColumn(df_filtered, "hot_topic_name"),
              [ raises \in BOOLEAN |-> display_hot_topic_stats(df_filtered, raises) ])

CallDefault ==
    /\ pc = "default"
    /\ CallPanel("default", "formulaire",
              HasColumn(df_filtered, "default_count"),
              [ raises \in BOOLEAN |-> display_default_stats(df_filtered, raises) ])

CallFormulaire ==
    /\ pc = "formulaire"
    /\ CallPanel("formulaire", "done",
              HasColumn(df_filtered, "formulaire_data"),
              [ raises \in BOOLEAN |-> display_formulaire_stats(df_filtered, raises) ])

\* A handler that reports the failure without the exception text.
HandleExceptionGeneric ==
    /\ pc = "except"
    /\ out' = out \o << Emit("error", "main", "processing", {}),
                        Emit("error", "main", "support", {}) >>
    /\ pc' = "done"
    /\ UNCHANGED << file, df, date_range, df_filtered, valid, exc, called, failed, stats, scan >>

\* except Exception as e: st.error(f"... {str(e)}"); st.error(...); st.code(str(e))
HandleException ==
    /\ pc = "except"
    /\ out' = out \o << Emit("error", "main", "processing", { exc }),
                        Emit("error", "main", "support", {}),
                        Emit("code", "main", "processing", { exc }) >>
    /\ pc' = "done"
    /\ UNCHANGED << file, df, date_range, df_filtered, valid, exc, called, failed, stats, scan >>

Next ==
    \/ MainStart
    \/ ReadCsv
    \/ SchemaCheck
    \/ ParseDates
    \/ DateInput
    \/ FilterRange
    \/ CallSatisfaction
    \/ CallConversation
    \/ CallUrlDevice
    \/ CallLanguage
    \/ CallStatistics
    \/ CallHotTopic
    \/ CallDefault
    \/ CallFormulaire
    \/ HandleException

Spec == Init /\ [][Next]_vars

\* ------------------------------------------- the schema check on its own
\* Header-only files over every column set, in several column orders.
InitSchema ==
    /\ pc = "read"
    /\ \E S \in SUBSET Range(AllColumns), k \in 0..MaxShift, reversed \in BOOLEAN :
          file = Csv(Ordering(S, k, reversed), << >>)
    /\ Blank

NextSchema == ReadCsv \/ SchemaCheck

SpecSchema == InitSchema /\ [][NextSchema]_vars

\* ------------------------------------------------------------ properties
RequiredNames ==
    { "theme_principal", "sous_theme", "date", "conversationId",
      "turn_count", "default_count", "feedbackPositive", "feedbackNegative" }

\* C1: once the schema check has run, the file is accepted if and only if
\* each of the 8 required column names occurs among its columns, whatever
\* the column order and whatever optional columns are present.
C1_SchemaIffAllRequired ==
    valid # "unchecked" =>
        ( valid = "valid" <=> \A c \in RequiredNames : c \in Range(df.columns) )

\* An accepted file whose header is not in the canonical order and carries
\* optional columns, next to the check having run.
C1_Witness ==
    /\ valid = "valid"
    /\ df.columns[1] # "theme_principal"
    /\ Len(df.columns) > Cardinality(RequiredNames)

\* The panels in the order of the page.
PanelOrder ==
    << "satisfaction", "conversation", "url_device", "language",
       "statistics", "hot_topic", "default", "formulaire" >>

PanelNames == Range(PanelOrder)

\* The emissions made by one function, in order.
EmissionsOf(src) == SelectSeq(out, LAMBDA e : e.src = src)

PanelEmissions == SelectSeq(out, LAMBDA e : e.src \in PanelNames)

\* C2: after a schema-validation failure the run is over, an error and the
\* list of the required columns are on the page, and no panel and no
\* date-range selector is, in that state and in every later one.
C2_SchemaFailureHalts ==
    valid = "invalid" =>
        /\ pc = "done"
        /\ called = << >>
        /\ \E i, j \in DOMAIN out :
              /\ i < j
              /\ out[i].kind = "error"
              /\ out[j].kind = "info"
              /\ out[j].detail = RequiredNames
        /\ PanelEmissions = << >>
        /\ \A i \in DOMAIN out : out[i].kind # "date_input"

\* A file with rows and without one required column has been rejected.
C2_Witness ==
    /\ valid = "invalid"
    /\ pc = "done"
    /\ Len(df.rows) > 0
    /\ Len(df.columns) > 0

\* The panels main calls for a table with columns cols, in page order.
ExpectedCalls(cols) ==
    SelectSeq(PanelOrder,
              LAMBDA p :
                 /\ p = "hot_topic" => { "is_hot_topic", "hot_topic_name" } \subseteq cols
                 /\ p = "default" => "default_count" \in cols
                 /\ p = "formulaire" => "formulaire_data" \in cols)

\* C3: when the computation of a panel throws, the panel shows its own
\* informational notice, main's handler is never entered and shows no
\* error, and at the end of the run every panel of the page has been called.
C3_PanelFailureIsolated ==
    \A k \in DOMAIN failed :
        /\ exc = "none"
        /\ pc # "except"
        /\ \E i \in DOMAIN out : out[i] = Info(failed[k], "error", {})
        /\ \A i \in DOMAIN out : out[i].kind # "error"
        /\ pc = "done" => called = ExpectedCalls(Range(file.table.columns))

\* The first panel threw and all eight panels were called in that run.
C3_Witness ==
    /\ pc = "done"
    /\ failed = << "satisfaction" >>
    /\ called = PanelOrder

\* C4 as stated: every run that passes the schema check ends with the
\* panels called in the fixed order, each optional one iff its columns exist.
C4_Original ==
    (valid = "valid" /\ pc = "done") =>
        called = ExpectedCalls(Range(file.table.columns))

IsPrefix(s, t) == Len(s) <= Len(t) /\ \A i \in DOMAIN s : s[i] = t[i]

\* C4 amended: every run that passes the schema check and raises no
\* exception while parsing the dates or building the date range ends with
\* the panels called in the fixed order, the hot-topic panel iff both of its
\* columns exist, the default-response panel iff default_count exists, the
\* form-funnel panel iff formulaire_data exists, the first five always; and
\* the calls made so far are at every moment a prefix of that order.
C4_Amended ==
    /\ IsPrefix(called, ExpectedCalls(Range(file.table.columns)))
    /\ (valid = "valid" /\ pc = "done" /\ exc = "none") =>
          called = ExpectedCalls(Range(file.table.columns))

\* A finished run over a file with one hot-topic column only: seven panels,
\* the hot-topic one skipped.
C4_Witness ==
    /\ pc = "done"
    /\ exc = "none"
    /\ HasColumn(df, "is_hot_topic")
    /\ ~HasColumn(df, "hot_topic_name")
    /\ HasColumn(df, "formulaire_data")
    /\ called = << "satisfaction", "conversation", "url_device", "language",
                   "statistics", "default", "formulaire" >>

\* The run has passed the date filter.
PastFilter == pc \in PanelNames \/ (pc = "done" /\ called # << >>)

Increasing(s) == \A i, j \in DOMAIN s : i < j => s[i] < s[j]

IdxOf(rows) == [ i \in DOMAIN rows |-> rows[i].idx ]

\* C5: with a complete range (start, end) the filtered table holds exactly
\* the rows of the file whose day d has start <= d <= end, in file order.
C5_FilterInclusive ==
    (PastFilter /\ Len(date_range) = 2) =>
        LET start == date_range[1]
            end == date_range[2]
            uploaded == file.table.rows
            kept == IdxOf(df_filtered.rows)
        IN  /\ Increasing(kept)
            /\ Range(kept) = { i \in DOMAIN uploaded :
                                 start <= uploaded[i].date.day /\ uploaded[i].date.day <= end }
            /\ \A i \in DOMAIN kept :
                  df_filtered.rows[i].date.day = uploaded[kept[i]].date.day

\* A single-day range (start = end) that keeps the second row of a two-day
\* file and drops the first.
C5_Witness ==
    /\ pc = "done"
    /\ Len(date_range) = 2
    /\ date_range[1] = date_range[2]
    /\ Len(df.rows) > Len(df_filtered.rows)
    /\ Len(df_filtered.rows) > 0
    /\ df_filtered.rows[1].idx > df.rows[1].idx

\* C6: with an incomplete or missing range the panels get every row of the
\* validated file, unfiltered, and a notice about the incomplete range is on
\* the page before anything a panel emits.
C6_IncompleteRangeUsesAll ==
    (PastFilter /\ Len(date_range) # 2) =>
        /\ df_filtered.columns = file.table.columns
        /\ IdxOf(df_filtered.rows) = [ i \in DOMAIN file.table.rows |-> i ]
        /\ \A i \in DOMAIN df_filtered.rows :
              df_filtered.rows[i].date.day = file.table.rows[i].date.day
        /\ \E i \in DOMAIN out :
              /\ out[i] = Info("main", "incomplete_range", {})
              /\ \A j \in DOMAIN out : out[j].src \in PanelNames => i < j

\* A run over a two-day file with only a start date picked has rendered
\* its panels on both rows.
C6_Witness ==
    /\ pc = "done"
    /\ Len(date_range) = 1
    /\ Len(df_filtered.rows) > 1
    /\ df_filtered.rows[1].date.day # df_filtered.rows[2].date.day
    /\ PanelEmissions # << >>

\* C7: every panel called on an empty dataset emits an informational
\* message and nothing else, and does not throw.
C7_EmptyDatasetNotice ==
    \A k \in DOMAIN called :
        Len(df_filtered.rows) = 0 =>
            /\ EmissionsOf(called[k]) # << >>
            /\ \A i \in DOMAIN out :
                  out[i].src = called[k] => out[i].kind = "info"
            /\ failed = << >>

\* C8 as stated: a run that ended in the top-level stage, by a rejected
\* schema or by an exception, shows an error carrying the exception text
\* and no panel.
C8_Original ==
    (pc = "done" /\ (valid = "invalid" \/ exc # "none")) =>
        /\ exc # "none"
        /\ \E i \in DOMAIN out : out[i].kind = "error" /\ out[i].detail = { exc }
        /\ called = << >>
        /\ PanelEmissions = << >>

\* C8 amended: an exception raised in the top-level stage of main (CSV
\* read, date parsing, date range) ends the run with an error that contains
\* the raw exception text, a rejected schema ends it with the fixed error and
\* the list of the required columns, and in both cases no panel is rendered.
C8_Amended ==
    /\ exc # "none" => pc \in { "except", "done" } /\ called = << >>
    /\ (pc = "done" /\ exc # "none") =>
          /\ \E i \in DOMAIN out : out[i].kind = "error" /\ out[i].detail = { exc }
          /\ PanelEmissions = << >>
    /\ (pc = "done" /\ valid = "invalid") =>
          /\ \E i \in DOMAIN out : out[i].kind = "error" /\ out[i].detail = {}
          /\ \E i \in DOMAIN out : out[i].kind = "info" /\ out[i].detail = RequiredNames
          /\ called = << >>
          /\ PanelEmissions = << >>

\* A run over a valid schema ended by the date parser's exception.
C8_Witness ==
    /\ pc = "done"
    /\ valid = "valid"
    /\ exc = "ValueError: time data"
    /\ Len(out) > 0

\* The columns each panel needs.
PanelRequires(p) ==
    CASE p = "satisfaction" -> { "feedbackPositive", "feedbackNegative" }
      [] p = "conversation" -> { "date", "conversationId", "turn_count" }
      [] p = "url_device" -> { "urls", "device" }
      [] p = "language" -> { "language_normalized" }
      [] p = "statistics" -> { "theme_principal", "sous_theme" }
      [] p = "hot_topic" -> { "is_hot_topic", "hot_topic_name" }
      [] p = "default" -> { "default_count" }
      [] p = "formulaire" -> { "formulaire_data" }

\* C9: every panel called on a non-empty dataset that lacks one of the
\* panel's columns emits one informational notice naming the missing
\* columns and nothing else.
C9_MissingColumnNotice ==
    \A k \in DOMAIN called :
        LET missing == MissingFrom(df_filtered, PanelRequires(called[k]))
        IN  (Len(df_filtered.rows) > 0 /\ missing # {}) =>
                /\ Len(EmissionsOf(called[k])) = 1
                /\ EmissionsOf(called[k])[1].kind = "info"
                /\ EmissionsOf(called[k])[1].detail = missing

\* C10: no panel call changes the table it is given, nor the table read
\* from the file: rows, columns and every date value stay as they were.
C10_PanelsLeaveDataUntouched ==
    [][(pc \in PanelNames) => (df_filtered' = df_filtered /\ df' = df)]_vars

\* The conversation panel, which writes the date column, has run on a
\* non-empty table whose file gave a time of day with a date.
C10_Witness ==
    /\ pc = "done"
    /\ failed = << >>
    /\ \E k \in DOMAIN called : called[k] = "conversation"
    /\ Len(df_filtered.rows) > 0
    /\ \E i \in DOMAIN file.table.rows : file.table.rows[i].date.time # 0
    /\ \E i \in DOMAIN out : out[i].src = "conversation" /\ out[i].kind = "dataframe"

\* =================================================== the panel bodies
\* The computations inside the try blocks of the panels.  Each is followed
\* on its own: df_filtered is the table the panel is given, stats the figures
\* it puts on the page.  Category strings (themes, languages, form names,
\* hot-topic names) are numbered in their sort order; 0 stands for a missing
\* value (NaN).
MaxRecords == 3
MaxCellRows == 2

Counts == 0..2
Null == 0

RECURSIVE SumSeq(_)
SumSeq(s) == IF s = << >> THEN 0 ELSE Head(s) + SumSeq(Tail(s))

\* Tuples of numbers in dictionary order.
LexLess(a, b) == a[1] < b[1] \/ (a[1] = b[1] /\ Len(a) > 1 /\ a[2] < b[2])

\* The group keys as pandas' groupby lists them: ascending.
RECURSIVE SortedKeys(_)
SortedKeys(S) ==
    IF S = {} THEN << >>
    ELSE LET m == CHOOSE x \in S : \A y \in S : y = x \/ LexLess(x, y)
         IN  << m >> \o SortedKeys(S \ { m })

\* sort_values(..., ascending=False) on the field key: the lines of S with
\* non-increasing keys; lines with equal keys come in whatever order the
\* sort leaves them.
DescOrdersAsc(S) ==
    { s \in [ 1..Cardinality(S) -> S ] :
        /\ \A i, j \in DOMAIN s : s[i] = s[j] => i = j
        /\ \A i, j \in DOMAIN s : i < j => s[i].key <= s[j].key }

DescOrders(S) ==
    { s \in [ 1..Cardinality(S) -> S ] :
        /\ \A i, j \in DOMAIN s : s[i] = s[j] => i = j
        /\ \A i, j \in DOMAIN s : i < j => s[i].key >= s[j].key }

\* A float64 value: a fraction, NaN or infinity.
Num(n, d) == [ kind |-> "num", num |-> n, den |-> d ]
NaN == [ kind |-> "nan", num |-> 0, den |-> 1 ]
Inf == [ kind |-> "inf", num |-> 0, den |-> 1 ]

\* Division of two integer columns: x/0 is inf, 0/0 is NaN, nothing raises.
FloatDiv(a, b) ==
    IF b = 0 THEN (IF a = 0 THEN NaN ELSE Inf) ELSE Num(a, b)

\* .fillna(v)
fillna(x, v) == IF x.kind = "nan" THEN Num(v, 1) ELSE x

\* n/d rounded to an integer, halves to the even neighbour.
RoundHalfEven(n, d) ==
    LET q == n \div d
        r == n % d
    IN  IF 2 * r < d THEN q
        ELSE IF 2 * r > d THEN q + 1
        ELSE IF q % 2 = 0 THEN q ELSE q + 1

\* (count / total * 100).round(1), in tenths of a percent.
Percent1(count, total) == RoundHalfEven(count * 1000, total)

\* All tables with at most n rows drawn from Rows.
TablesOf(Rows, n) == { Table(AllColumns, r) : r \in UNION { [ 1..k -> Rows ] : k \in 0..n } }

\* The step that leaves the figures of a panel in stats.
Followed(figures) ==
    /\ pc = "compute"
    /\ stats' = figures
    /\ pc' = "done"
    /\ UNCHANGED << file, df, date_range, df_filtered, valid, exc, out, called, failed, scan >>

\* A panel handed the table t, before its body runs.
Given(t) ==
    /\ pc = "compute"
    /\ file = NoFile
    /\ df = t
    /\ date_range = << >>
    /\ df_filtered = t
    /\ valid = "valid"
    /\ exc = "none"
    /\ out = << >>
    /\ called = << >>
    /\ failed = << >>
    /\ stats = NoStats
    /\ scan = NoScan

\* ------------------------------------------------- display_formulaire_stats
FormNames == { 1, 2 }

FormCounters == [ triggers : Counts, completions : Counts ]

\* A formulaire_data cell: NaN for an empty CSV field, or a JSON object
\* mapping form names to their counters.
NaNCell == [ kind |-> "nan", data |-> << >> ]
JsonCell(object) == [ kind |-> "json", data |-> object ]

FormCells ==
    { NaNCell } \cup
    { JsonCell(o) : o \in UNION { [ S -> FormCounters ] : S \in SUBSET FormNames } }

FormRows == [ formulaire_data : FormCells ]

\* for formulaire_name, stats in data.items(): formulaire_data.append({...})
ItemsOf(object) ==
    LET names == SortedKeys({ << n >> : n \in DOMAIN object })
    IN  [ i \in DOMAIN names |->
            [ name |-> names[i][1],
              triggers |-> object[names[i][1]].triggers,
              completions |-> object[names[i][1]].completions ] ]

\* The loop over df.iterrows(): NaN is truthy, so json.loads gets it and raises.
RECURSIVE ExtractForms(_)
ExtractForms(rows) ==
    IF rows = << >> THEN [ raised |-> FALSE, list |-> << >> ]
    ELSE IF Head(rows).formulaire_data.kind = "nan"
         THEN [ raised |-> TRUE, list |-> << >> ]
         ELSE LET rest == ExtractForms(Tail(rows))
              IN  [ raised |-> rest.raised,
                    list |-> ItemsOf(Head(rows).formulaire_data.data) \o rest.list ]

\* formulaire_df.groupby('name').agg({'triggers': 'sum', 'completions': 'sum'})
\* and the completion_rate column.
FormSummary(list) ==
    LET names == SortedKeys({ << list[i].name >> : i \in DOMAIN list })
        Of(n) == SelectSeq(list, LAMBDA e : e.name = n)
        Triggers(n) == SumSeq([ i \in DOMAIN Of(n) |-> Of(n)[i].triggers ])
        Completions(n) == SumSeq([ i \in DOMAIN Of(n) |-> Of(n)[i].completions ])
    IN  [ i \in DOMAIN names |->
            [ name |-> names[i][1],
              triggers |-> Triggers(names[i][1]),
              completions |-> Completions(names[i][1]),
              completion_rate |->
                  fillna(FloatDiv(Completions(names[i][1]), Triggers(names[i][1])), 0) ] ]

formulaire_stats(tbl) ==
    IF Empty(tbl) \/ ~HasColumn(tbl, "formulaire_data")
    THEN [ outcome |-> "empty" ]
    ELSE LET extracted == ExtractForms(tbl.rows)
             formulaire_summary == FormSummary(extracted.list)
             total_triggers ==
                 SumSeq([ i \in DOMAIN formulaire_summary |-> formulaire_summary[i].triggers ])
             total_completions ==
                 SumSeq([ i \in DOMAIN formulaire_summary |-> formulaire_summary[i].completions ])
         IN  IF extracted.raised THEN [ outcome |-> "error" ]
             ELSE IF extracted.list = << >> THEN [ outcome |-> "no_forms" ]
             ELSE [ outcome |-> "rendered",
                    summary |-> formulaire_summary,
                    total_triggers |-> total_triggers,
                    total_completions |-> total_completions,
                    global_completion_rate |->
                        IF total_triggers > 0
                        THEN Num(total_completions, total_triggers)
                        ELSE Num(0, 1) ]

FollowFormulaire == Followed(formulaire_stats(df_filtered))

InitForms == \E t \in TablesOf(FormRows, MaxCellRows) : Given(t)

SpecForms == InitForms /\ [][FollowFormulaire]_vars

\* The entries of every cell that holds a JSON object, whatever the other
\* cells are.
FormEntries(rows) ==
    LET cells == SelectSeq(rows, LAMBDA r : r.formulaire_data.kind = "json")
    IN  ExtractForms(cells).list

FormTotal(rows, n, field) ==
    LET e == SelectSeq(FormEntries(rows), LAMBDA x : x.name = n)
    IN  SumSeq([ i \in DOMAIN e |-> IF field = "triggers" THEN e[i].triggers ELSE e[i].completions ])

\* x is the fraction a/b.
IsFraction(x, a, b) == x.kind = "num" /\ x.num * b = a * x.den

\* C11: a form whose summed triggers are 0 has a completion rate of exactly
\* 0, a finite number, whatever its summed completions are, and the panel
\* does not fail because of the division.
C11_ZeroTriggersRateZero ==
    (pc = "done" /\ \A i \in DOMAIN df_filtered.rows :
                        df_filtered.rows[i].formulaire_data.kind = "json")
    => /\ stats.outcome # "error"
       /\ stats.outcome = "rendered" =>
            \A i \in DOMAIN stats.summary :
                stats.summary[i].triggers = 0 =>
                    IsFraction(stats.summary[i].completion_rate, 0, 1)

\* C17: every form named in some non-empty formulaire_data cell has one line
\* with its triggers and completions summed over those cells and, when it was
\* triggered, completions / triggers as its rate; the global rate is total
\* completions / total triggers, 0 when nothing was triggered.
C17_FormTotals ==
    LET rows == df_filtered.rows
        names == { FormEntries(rows)[i].name : i \in DOMAIN FormEntries(rows) }
        total(field) == SumSeq([ i \in DOMAIN FormEntries(rows) |->
                                   IF field = "triggers" THEN FormEntries(rows)[i].triggers
                                   ELSE FormEntries(rows)[i].completions ])
    IN  (pc = "done" /\ names # {})
        => /\ stats.outcome = "rendered"
           /\ { stats.summary[i].name : i \in DOMAIN stats.summary } = names
           /\ \A i, j \in DOMAIN stats.summary :
                stats.summary[i].name = stats.summary[j].name => i = j
           /\ \A i \in DOMAIN stats.summary :
                LET line == stats.summary[i]
                IN  /\ line.triggers = FormTotal(rows, line.name, "triggers")
                    /\ line.completions = FormTotal(rows, line.name, "completions")
                    /\ line.triggers > 0 =>
                         IsFraction(line.completion_rate, line.completions, line.triggers)
           /\ stats.total_triggers = total("triggers")
           /\ stats.total_completions = total("completions")
           /\ IF total("triggers") > 0
              THEN IsFraction(stats.global_completion_rate,
                              total("completions"), total("triggers"))
              ELSE IsFraction(stats.global_completion_rate, 0, 1)

\* --------------------------------------------- display_satisfaction_metrics
SubThemes == { Null, 1, 2 }

FeedbackRows ==
    [ sous_theme : SubThemes, feedbackPositive : Counts, feedbackNegative : Counts ]

\* df.groupby('sous_theme').agg({... 'sum'}): one line per sub-theme present;
\* rows without a sub-theme belong to no group.
theme_feedback(rows) ==
    LET present == { rows[i].sous_theme : i \in DOMAIN rows } \ { Null }
        Of(t) == SelectSeq(rows, LAMBDA r : r.sous_theme = t)
    IN  { [ sous_theme |-> t,
            feedbackNegative |-> SumSeq([ i \in DOMAIN Of(t) |-> Of(t)[i].feedbackNegative ]),
            feedbackPositive |-> SumSeq([ i \in DOMAIN Of(t) |-> Of(t)[i].feedbackPositive ]) ]
          : t \in present }

\* The lines kept for the negative table, with total_feedback and
\* negative_rate (tenths of a percent); key is the column sorted on.
NegativeLines(rows) ==
    { [ sous_theme |-> g.sous_theme,
        key |-> g.feedbackNegative,
        feedbackNegative |-> g.feedbackNegative,
        feedbackPositive |-> g.feedbackPositive,
        total_feedback |-> g.feedbackPositive + g.feedbackNegative,
        rate |-> Percent1(g.feedbackNegative, g.feedbackPositive + g.feedbackNegative) ]
      : g \in { h \in theme_feedback(rows) : h.feedbackNegative > 0 } }

PositiveLinesAmongNegative(rows) ==
    { [ sous_theme |-> g.sous_theme,
        key |-> g.feedbackPositive,
        feedbackNegative |-> g.feedbackNegative,
        feedbackPositive |-> g.feedbackPositive,
        total_feedback |-> g.feedbackPositive + g.feedbackNegative,
        rate |-> Percent1(g.feedbackPositive, g.feedbackPositive + g.feedbackNegative) ]
      : g \in { h \in theme_feedback(rows) : h.feedbackNegative > 0 /\ h.feedbackPositive > 0 } }

PositiveLines(rows) ==
    { [ sous_theme |-> g.sous_theme,
        key |-> g.feedbackPositive,
        feedbackNegative |-> g.feedbackNegative,
        feedbackPositive |-> g.feedbackPositive,
        total_feedback |-> g.feedbackPositive + g.feedbackNegative,
        rate |-> Percent1(g.feedbackPositive, g.feedbackPositive + g.feedbackNegative) ]
      : g \in { h \in theme_feedback(rows) : h.feedbackPositive > 0 } }

satisfaction_metricsVotes(tbl, negative_table, positive_table) ==
    LET total_conversations == Len(tbl.rows)
        total_negative == SumSeq([ i \in DOMAIN tbl.rows |-> tbl.rows[i].feedbackNegative ])
        total_positive == SumSeq([ i \in DOMAIN tbl.rows |-> tbl.rows[i].feedbackPositive ])
        total_votes == total_negative + total_positive
    IN  IF Empty(tbl) THEN [ outcome |-> "empty" ]
        ELSE IF total_votes = 0 THEN [ outcome |-> "no_votes" ]
        ELSE [ outcome |-> "rendered",
               negative_rate |-> Num(total_negative * 100, total_votes),
               total_votes |-> total_votes,
               total_positive |-> total_positive,
               total_negative |-> total_negative,
               negative_table |-> negative_table,
               positive_table |-> positive_table ]

\* The figures of the panel, given the two sorted tables.
satisfaction_metrics(tbl, negative_table, positive_table) ==
    LET total_conversations == Len(tbl.rows)
        total_negative == SumSeq([ i \in DOMAIN tbl.rows |-> tbl.rows[i].feedbackNegative ])
        total_positive == SumSeq([ i \in DOMAIN tbl.rows |-> tbl.rows[i].feedbackPositive ])
        total_votes == total_negative + total_positive
    IN  IF Empty(tbl) THEN [ outcome |-> "empty" ]
        ELSE IF total_votes = 0 THEN [ outcome |-> "no_votes" ]
        ELSE [ outcome |-> "rendered",
               negative_rate |-> Num(total_negative * 100, total_conversations),
               total_votes |-> total_votes,
               total_positive |-> total_positive,
               total_negative |-> total_negative,
               negative_table |-> negative_table,
               positive_table |-> positive_table ]

FollowSatisfaction ==
    \E negative_table \in DescOrders(NegativeLines(df_filtered.rows)),
       positive_table \in DescOrders(PositiveLines(df_filtered.rows)) :
        Followed(satisfaction_metrics(df_filtered, negative_table, positive_table))

InitSatisfaction == \E t \in TablesOf(FeedbackRows, MaxRecords) : Given(t)

SpecSatisfaction == InitSatisfaction /\ [][FollowSatisfaction]_vars

FeedbackTotal(rows, field) ==
    SumSeq([ i \in DOMAIN rows |->
               IF field = "negative" THEN rows[i].feedbackNegative ELSE rows[i].feedbackPositive ])

\* C12: the negative rate shown is the summed feedbackNegative over the
\* number of rows (as a percentage), total votes is positive plus negative,
\* and the split shows these two totals.
C12_NegativeRatePerConversation ==
    (pc = "done" /\ stats.outcome = "rendered")
    => /\ IsFraction(stats.negative_rate,
                     100 * FeedbackTotal(df_filtered.rows, "negative"),
                     Len(df_filtered.rows))
       /\ stats.total_positive = FeedbackTotal(df_filtered.rows, "positive")
       /\ stats.total_negative = FeedbackTotal(df_filtered.rows, "negative")
       /\ stats.total_votes = stats.total_positive + stats.total_negative

\* The scenario of the specification: feedbackPositive = [1, 0, 2] and
\* feedbackNegative = [0, 1, 0] give 1/3, 4 votes, 3 positive, 1 negative.
C12_Witness ==
    /\ pc = "done"
    /\ Len(df_filtered.rows) = 3
    /\ [ i \in 1..3 |-> df_filtered.rows[i].feedbackPositive ] = << 1, 0, 2 >>
    /\ [ i \in 1..3 |-> df_filtered.rows[i].feedbackNegative ] = << 0, 1, 0 >>
    /\ IsFraction(stats.negative_rate, 100, 3)
    /\ stats.total_votes = 4
    /\ stats.total_positive = 3
    /\ stats.total_negative = 1

\* The sub-themes of the rows with their summed votes, stated row by row.
SubThemeVotes(rows, t, field) ==
    FeedbackTotal(SelectSeq(rows, LAMBDA r : r.sous_theme = t), field)

\* rate is count / total as a percentage with one decimal (in tenths).
IsPercent1(rate, count, total) ==
    /\ 2 * (rate * total - 1000 * count) <= total
    /\ 2 * (1000 * count - rate * total) <= total

\* C18: the negative table lists exactly the sub-themes with at least one
\* negative vote, by non-increasing negative count, the positive table
\* exactly those with at least one positive vote, by non-increasing positive
\* count, each decided without regard to the other; a line's rate is its own
\* count over negative + positive of the sub-theme.
C18_IndependentTables ==
    LET rows == df_filtered.rows
        named == { rows[i].sous_theme : i \in DOMAIN rows } \ { Null }
        neg == stats.negative_table
        pos == stats.positive_table
    IN  (pc = "done" /\ stats.outcome = "rendered")
        => /\ { neg[i].sous_theme : i \in DOMAIN neg }
                = { t \in named : SubThemeVotes(rows, t, "negative") >= 1 }
           /\ { pos[i].sous_theme : i \in DOMAIN pos }
                = { t \in named : SubThemeVotes(rows, t, "positive") >= 1 }
           /\ \A i, j \in DOMAIN neg : neg[i].sous_theme = neg[j].sous_theme => i = j
           /\ \A i, j \in DOMAIN pos : pos[i].sous_theme = pos[j].sous_theme => i = j
           /\ \A i \in DOMAIN neg :
                /\ neg[i].feedbackNegative = SubThemeVotes(rows, neg[i].sous_theme, "negative")
                /\ neg[i].feedbackPositive = SubThemeVotes(rows, neg[i].sous_theme, "positive")
                /\ IsPercent1(neg[i].rate, neg[i].feedbackNegative,
                              neg[i].feedbackNegative + neg[i].feedbackPositive)
                /\ i > 1 => neg[i - 1].feedbackNegative >= neg[i].feedbackNegative
           /\ \A i \in DOMAIN pos :
                /\ pos[i].feedbackNegative = SubThemeVotes(rows, pos[i].sous_theme, "negative")
                /\ pos[i].feedbackPositive = SubThemeVotes(rows, pos[i].sous_theme, "positive")
                /\ IsPercent1(pos[i].rate, pos[i].feedbackPositive,
                              pos[i].feedbackNegative + pos[i].feedbackPositive)
                /\ i > 1 => pos[i - 1].feedbackPositive >= pos[i].feedbackPositive

\* A sub-theme in the positive table only, another in both, in the order of
\* their counts.
C18_Witness ==
    /\ pc = "done"
    /\ stats.outcome = "rendered"
    /\ Len(stats.positive_table) = 2
    /\ Len(stats.negative_table) = 1
    /\ stats.positive_table[1].feedbackPositive > stats.positive_table[2].feedbackPositive
    /\ stats.negative_table[1].sous_theme = stats.positive_table[2].sous_theme
    /\ \E i \in DOMAIN df_filtered.rows : df_filtered.rows[i].sous_theme = Null

\* --------------------------------------------------- display_default_stats
Themes == { Null, 1, 2 }

DefaultRows == [ theme_principal : Themes, sous_theme : SubThemes, default_count : Counts ]

DefaultSum(rows) == SumSeq([ i \in DOMAIN rows |-> rows[i].default_count ])

\* df[df['default_count'] > 0]
WithDefaults(rows) == SelectSeq(rows, LAMBDA r : r.default_count > 0)

\* df[df['default_count'] > 0].groupby(['theme_principal', 'sous_theme'])
\*   .agg({'default_count': ['count', 'sum']}) with the pourcentage column:
\* rows lacking either key belong to no group.
theme_defaults(rows, total_defaults) ==
    LET kept == WithDefaults(rows)
        keys == { << kept[i].theme_principal, kept[i].sous_theme >> : i \in DOMAIN kept }
        Of(k) == SelectSeq(kept, LAMBDA r : r.theme_principal = k[1] /\ r.sous_theme = k[2])
    IN  { [ theme_principal |-> k[1],
            sous_theme |-> k[2],
            conversations |-> Len(Of(k)),
            total_defaults |-> DefaultSum(Of(k)),
            key |-> DefaultSum(Of(k)),
            pourcentage |-> Percent1(DefaultSum(Of(k)), total_defaults) ]
          : k \in { x \in keys : x[1] # Null /\ x[2] # Null } }

default_statsPerDefault(tbl, table) ==
    LET total_defaults == DefaultSum(tbl.rows)
        conversations_with_defaults == Len(WithDefaults(tbl.rows))
        total_conversations == Len(tbl.rows)
    IN  IF Empty(tbl) \/ ~HasColumn(tbl, "default_count") THEN [ outcome |-> "empty" ]
        ELSE IF total_defaults = 0 THEN [ outcome |-> "no_defaults" ]
        ELSE [ outcome |-> "rendered",
               total_defaults |-> total_defaults,
               default_rate |-> Num(total_defaults * 100, total_conversations),
               shown_rate |-> Percent1(total_defaults, total_conversations),
               avg_defaults |-> Num(total_defaults, total_conversations),
               table |-> table ]

\* The figures of the panel, given the sorted cross-tabulation.
default_stats(tbl, table) ==
    LET total_defaults == DefaultSum(tbl.rows)
        conversations_with_defaults == Len(WithDefaults(tbl.rows))
        total_conversations == Len(tbl.rows)
    IN  IF Empty(tbl) \/ ~HasColumn(tbl, "default_count") THEN [ outcome |-> "empty" ]
        ELSE IF total_defaults = 0 THEN [ outcome |-> "no_defaults" ]
        ELSE [ outcome |-> "rendered",
               total_defaults |-> total_defaults,
               default_rate |-> Num(conversations_with_defaults * 100, total_conversations),
               shown_rate |-> Percent1(conversations_with_defaults, total_conversations),
               avg_defaults |-> Num(total_defaults, total_conversations),
               table |-> table ]

FollowDefault ==
    \E table \in DescOrders(theme_defaults(df_filtered.rows, DefaultSum(df_filtered.rows))) :
        Followed(default_stats(df_filtered, table))

InitDefault == \E t \in TablesOf(DefaultRows, MaxRecords) : Given(t)

SpecDefault == InitDefault /\ [][FollowDefault]_vars

\* The number of rows with default_count > 0, counted row by row.
RowsWithDefault(rows) == Cardinality({ i \in DOMAIN rows : rows[i].default_count > 0 })

\* C13 as stated: every non-empty dataset gets a rate which, multiplied by
\* the number of rows and rounded, is the number of rows with
\* default_count > 0, also when that number is 0.
C13_Original ==
    (pc = "done" /\ Len(df_filtered.rows) > 0)
    => /\ stats.outcome = "rendered"
       /\ RoundHalfEven(stats.shown_rate * Len(df_filtered.rows), 1000)
            = RowsWithDefault(df_filtered.rows)

\* C13 amended: when some row has default_count > 0 the rate computed is
\* exactly that number of rows over the number of rows (as a percentage), so
\* rate times rows is that number; when none has, no rate is reported.
C13_Amended ==
    (pc = "done" /\ Len(df_filtered.rows) > 0)
    => IF RowsWithDefault(df_filtered.rows) > 0
       THEN /\ stats.outcome = "rendered"
            /\ IsFraction(stats.default_rate,
                          100 * RowsWithDefault(df_filtered.rows), Len(df_filtered.rows))
            /\ RoundHalfEven(stats.default_rate.num * Len(df_filtered.rows),
                             100 * stats.default_rate.den)
                 = RowsWithDefault(df_filtered.rows)
       ELSE stats.outcome = "no_defaults"

\* A rate below 100% whose row has more than one default response.
C13_Witness ==
    /\ pc = "done"
    /\ stats.outcome = "rendered"
    /\ Len(df_filtered.rows) = 3
    /\ RowsWithDefault(df_filtered.rows) = 2
    /\ stats.total_defaults = 4
    /\ stats.shown_rate = 667

\* The rows that have both a theme and a sub-theme.
Themed(rows) == SelectSeq(rows, LAMBDA r : r.theme_principal # Null /\ r.sous_theme # Null)

CrossTabOrdered ==
    /\ \A i \in DOMAIN stats.table :
         i > 1 => stats.table[i - 1].total_defaults >= stats.table[i].total_defaults
    /\ \A i \in DOMAIN stats.table :
         LET line == stats.table[i]
             mine == SelectSeq(df_filtered.rows,
                        LAMBDA r : /\ r.theme_principal = line.theme_principal
                                   /\ r.sous_theme = line.sous_theme)
         IN  /\ line.total_defaults = DefaultSum(mine)
             /\ IsPercent1(line.pourcentage, line.total_defaults, DefaultSum(df_filtered.rows))
    /\ \A i, j \in DOMAIN stats.table :
         (/\ stats.table[i].theme_principal = stats.table[j].theme_principal
          /\ stats.table[i].sous_theme = stats.table[j].sous_theme) => i = j

TableSum == SumSeq([ i \in DOMAIN stats.table |-> stats.table[i].total_defaults ])

\* C19 as stated: lines by non-increasing summed default_count, percentage
\* = summed default_count over the grand total of the whole dataset, and the
\* lines' sums add up to that grand total.
C19_Original ==
    (pc = "done" /\ stats.outcome = "rendered")
    => /\ CrossTabOrdered
       /\ TableSum = DefaultSum(df_filtered.rows)

\* C19 amended: same order and percentages; the lines' sums add up to the
\* total of default_count over the rows that have both a theme and a
\* sub-theme, which is the grand total only when no row with default
\* responses lacks one of them.
C19_Amended ==
    (pc = "done" /\ stats.outcome = "rendered")
    => /\ CrossTabOrdered
       /\ TableSum = DefaultSum(Themed(df_filtered.rows))
       /\ TableSum <= DefaultSum(df_filtered.rows)
       /\ (\A i \in DOMAIN df_filtered.rows :
             df_filtered.rows[i].default_count > 0 =>
                /\ df_filtered.rows[i].theme_principal # Null
                /\ df_filtered.rows[i].sous_theme # Null)
          => TableSum = DefaultSum(df_filtered.rows)

\* Two lines with different sums and a row with default responses but no
\* sub-theme.
C19_Witness ==
    /\ pc = "done"
    /\ stats.outcome = "rendered"
    /\ Len(stats.table) = 2
    /\ stats.table[1].total_defaults > stats.table[2].total_defaults
    /\ TableSum < stats.total_defaults

\* ------------------------------------------------------ display_statistics
ThemeRows == [ theme_principal : Themes, sous_theme : SubThemes ]

\* df.groupby(['theme_principal', 'sous_theme']).size() with the percentage
\* column, its share of a theme's rows instead of all rows.
theme_dataWithinTheme(rows) ==
    LET keys == { << rows[i].theme_principal, rows[i].sous_theme >> : i \in DOMAIN rows }
        Size(k) == Len(SelectSeq(rows, LAMBDA r : r.theme_principal = k[1] /\ r.sous_theme = k[2]))
        OfTheme(k) == Len(SelectSeq(rows, LAMBDA r : r.theme_principal = k[1]))
    IN  { [ theme_principal |-> k[1],
            sous_theme |-> k[2],
            count |-> Size(k),
            key |-> Size(k),
            percentage |-> Percent1(Size(k), OfTheme(k)) ]
          : k \in { x \in keys : x[1] # Null /\ x[2] # Null } }

\* df.groupby(['theme_principal', 'sous_theme']).size() with the percentage
\* column: rows lacking either key belong to no group.
theme_data(rows) ==
    LET keys == { << rows[i].theme_principal, rows[i].sous_theme >> : i \in DOMAIN rows }
        Size(k) == Len(SelectSeq(rows, LAMBDA r : r.theme_principal = k[1] /\ r.sous_theme = k[2]))
    IN  { [ theme_principal |-> k[1],
            sous_theme |-> k[2],
            count |-> Size(k),
            key |-> Size(k),
            percentage |-> Percent1(Size(k), Len(rows)) ]
          : k \in { x \in keys : x[1] # Null /\ x[2] # Null } }

\* theme_data[theme_data['theme_principal'] == theme]
theme_rows(rows, theme) == { g \in theme_data(rows) : g.theme_principal = theme }

CountSum(lines) == SumSeq([ i \in DOMAIN lines |-> lines[i].count ])

\* theme_data.groupby('theme_principal')['count'].sum()
theme_totals(rows) ==
    LET themes == { g.theme_principal : g \in theme_data(rows) }
    IN  { [ theme_principal |-> t,
            key |-> CountSum(CHOOSE s \in DescOrders(theme_rows(rows, t)) : TRUE) ]
          : t \in themes }

\* The orders in which the sub-theme lines of each theme can be listed.
SubThemeOrders(rows) ==
    LET themes == { g.theme_principal : g \in theme_data(rows) }
    IN  { f \in [ themes -> UNION { DescOrders(theme_rows(rows, t)) : t \in themes } ] :
            \A t \in themes : f[t] \in DescOrders(theme_rows(rows, t)) }

\* The figures of the panel, given the order of the themes and of the
\* sub-themes inside each.
statistics(tbl, order, sub) ==
    LET total_conversations == Len(tbl.rows)
        theme_conversations ==
            Len(SelectSeq(tbl.rows, LAMBDA r : r.theme_principal # Null))
    IN  IF Empty(tbl) THEN [ outcome |-> "empty" ]
        ELSE IF theme_data(tbl.rows) = {}
        THEN [ outcome |-> "no_themes",
               theme_conversations |-> theme_conversations,
               theme_percentage |-> Percent1(theme_conversations, total_conversations) ]
        ELSE [ outcome |-> "rendered",
               theme_conversations |-> theme_conversations,
               theme_percentage |-> Percent1(theme_conversations, total_conversations),
               table |-> [ i \in DOMAIN order |->
                             [ theme |-> order[i].theme_principal,
                               theme_total |-> order[i].key,
                               theme_percentage |-> Percent1(order[i].key, Len(tbl.rows)),
                               rows |-> sub[order[i].theme_principal] ] ] ]

FollowStatistics ==
    \E order \in DescOrders(theme_totals(df_filtered.rows)),
       sub \in SubThemeOrders(df_filtered.rows) :
        Followed(statistics(df_filtered, order, sub))

InitThemes == \E t \in TablesOf(ThemeRows, MaxRecords) : Given(t)

SpecThemes == InitThemes /\ [][FollowStatistics]_vars

PercentageSum(lines) == SumSeq([ i \in DOMAIN lines |-> lines[i].percentage ])

\* C14: for every theme shown, the percentages of its sub-theme lines add up
\* to the theme's own percentage, up to the rounding of each figure to one
\* decimal, and every percentage is a share of the number of rows of the
\* dataset.
C14_SubThemesAddUp ==
    (pc = "done" /\ stats.outcome = "rendered")
    => \A i \in DOMAIN stats.table :
         LET block == stats.table[i]
             n == Len(df_filtered.rows)
             diff == PercentageSum(block.rows) - block.theme_percentage
         IN  /\ 2 * diff <= Len(block.rows) + 1
             /\ 2 * (0 - diff) <= Len(block.rows) + 1
             /\ IsPercent1(block.theme_percentage, CountSum(block.rows), n)
             /\ \A j \in DOMAIN block.rows :
                  /\ block.rows[j].count =
                       Cardinality({ k \in DOMAIN df_filtered.rows :
                           /\ df_filtered.rows[k].theme_principal = block.theme
                           /\ df_filtered.rows[k].sous_theme = block.rows[j].sous_theme })
                  /\ IsPercent1(block.rows[j].percentage, block.rows[j].count, n)

\* A theme of two sub-themes in a dataset of three rows: 33.3 + 33.3 against
\* 66.7.
C14_Witness ==
    /\ pc = "done"
    /\ stats.outcome = "rendered"
    /\ \E i \in DOMAIN stats.table :
         /\ Len(stats.table[i].rows) = 2
         /\ PercentageSum(stats.table[i].rows) = 666
         /\ stats.table[i].theme_percentage = 667

\* ----------------------------------------------- display_language_analysis
\* language_normalized: missing, the empty string, or a language.
EmptyText == 0 - 1
Languages == { Null, EmptyText, 1, 2, 3 }

\* A share below 1% needs more than a hundred rows: a row of the table stands
\* for n consecutive rows of the file with the same language.
RunLengths == { 1, 2, 99, 198 }

LanguageRuns == [ language_normalized : Languages, n : RunLengths ]

\* df[df['language_normalized'].notna() & (df['language_normalized'] != '')]
language_data(rows) ==
    SelectSeq(rows, LAMBDA r : r.language_normalized # Null /\ r.language_normalized # EmptyText)

RunSum(rows) == SumSeq([ i \in DOMAIN rows |-> rows[i].n ])

\* language_data['language_normalized'].value_counts()
raw_language_counts(rows) ==
    LET data == language_data(rows)
        present == { data[i].language_normalized : i \in DOMAIN data }
    IN  { [ language |-> l,
            key |-> RunSum(SelectSeq(data, LAMBDA r : r.language_normalized = l)) ]
          : l \in present }

\* language_percentages > 1.0
IsMajorStrict(count, total) == count * 100 > total

\* language_percentages >= 1.0
IsMajor(count, total) == count * 100 >= total

major_languages(rows) ==
    { c \in raw_language_counts(rows) : IsMajor(c.key, RunSum(language_data(rows))) }

minor_languages(rows) ==
    { c \in raw_language_counts(rows) : ~IsMajor(c.key, RunSum(language_data(rows))) }

\* One entry of language_counts with its displayed count and percentage.
LanguageEntry(label, autres, count, total) ==
    [ label |-> label,
      autres |-> autres,
      share |-> Num(count * 100, total),
      count |-> RoundHalfEven(count * 100 * total, 100 * total),
      pourcentage |-> Percent1(count, total) ]

\* The figures of the panel, given the order value_counts lists the major
\* languages in; 'Autres' is appended after them.
language_analysis(tbl, order) ==
    LET total_with_language == RunSum(language_data(tbl.rows))
        minor == minor_languages(tbl.rows)
        minor_sum == RunSum([ i \in DOMAIN tbl.rows |->
                        [ n |-> IF \E c \in minor : c.language = tbl.rows[i].language_normalized
                                THEN tbl.rows[i].n ELSE 0 ] ])
    IN  IF Empty(tbl) THEN [ outcome |-> "empty" ]
        ELSE IF language_data(tbl.rows) = << >> THEN [ outcome |-> "no_language" ]
        ELSE [ outcome |-> "rendered",
               total_with_language |-> total_with_language,
               language_counts |->
                   [ i \in DOMAIN order |->
                       LanguageEntry(order[i].language, FALSE, order[i].key, total_with_language) ]
                   \o (IF minor # {}
                       THEN << LanguageEntry(Null, TRUE, minor_sum, total_with_language) >>
                       ELSE << >>) ]

FollowLanguage ==
    \E order \in DescOrders(major_languages(df_filtered.rows)) :
        Followed(language_analysis(df_filtered, order))

InitLanguage == \E t \in TablesOf(LanguageRuns, MaxRecords) : Given(t)

SpecLanguage == InitLanguage /\ [][FollowLanguage]_vars

\* The number of rows of the file whose language is l.
RowsInLanguage(rows, l) ==
    SumSeq([ i \in DOMAIN rows |-> IF rows[i].language_normalized = l THEN rows[i].n ELSE 0 ])

RECURSIVE RowsInLanguages(_, _)
RowsInLanguages(rows, S) ==
    IF S = {} THEN 0
    ELSE LET l == CHOOSE x \in S : TRUE
         IN  RowsInLanguage(rows, l) + RowsInLanguages(rows, S \ { l })

\* C15: rows without a language are not in the denominator; every entry but
\* 'Autres' is a language with at least 1% of the rows that have one,
\* 'Autres' has the summed shares of the languages below 1%, and is absent
\* when there is none.
C15_AutresBucket ==
    LET rows == df_filtered.rows
        spoken == { l \in Languages \ { Null, EmptyText } : RowsInLanguage(rows, l) > 0 }
        total == RowsInLanguages(rows, spoken)
        below == { l \in spoken : RowsInLanguage(rows, l) * 100 < total }
        entries == stats.language_counts
    IN  (pc = "done" /\ stats.outcome = "rendered")
        => /\ stats.total_with_language = total
           /\ { entries[i].label : i \in { j \in DOMAIN entries : ~entries[j].autres } }
                = spoken \ below
           /\ \A i, j \in DOMAIN entries :
                (entries[i].label = entries[j].label /\ entries[i].autres = entries[j].autres)
                    => i = j
           /\ \A i \in DOMAIN entries :
                IF entries[i].autres
                THEN /\ below # {}
                     /\ IsFraction(entries[i].share, 100 * RowsInLanguages(rows, below), total)
                ELSE /\ IsFraction(entries[i].share,
                                   100 * RowsInLanguage(rows, entries[i].label), total)
                     /\ entries[i].share.num >= entries[i].share.den
           /\ below = {} => \A i \in DOMAIN entries : ~entries[i].autres
           /\ below # {} => \E i \in DOMAIN entries : entries[i].autres

\* Rows without language beside a language below 1%, gathered in 'Autres'
\* after the language that has the rest.
C15_Witness ==
    /\ pc = "done"
    /\ stats.outcome = "rendered"
    /\ \E i \in DOMAIN df_filtered.rows : df_filtered.rows[i].language_normalized = Null
    /\ stats.total_with_language = 199
    /\ Len(stats.language_counts) = 2
    /\ stats.language_counts[2].autres
    /\ stats.language_counts[2].count = 1

\* -------------------------------------------- display_url_and_device_stats
MaxUrlChars == 5
TopUrls == 10

\* The characters of a urls cell: two letters, the separator and a blank.
Chars == { "a", "b", ",", " " }

TextCell(chars) == [ kind |-> "text", chars |-> chars ]

\* The urls column whose cells hold the characters of text, lens[i] of them
\* in row i; an empty CSV field is read as NaN.
RECURSIVE UrlColumn(_, _)
UrlColumn(text, lens) ==
    IF lens = << >> THEN << >>
    ELSE << [ urls |-> IF Head(lens) = 0 THEN NaNCell
                       ELSE TextCell(SubSeq(text, 1, Head(lens))) ] >>
         \o UrlColumn(SubSeq(text, Head(lens) + 1, Len(text)), Tail(lens))

\* str.split(',')
RECURSIVE split(_)
split(chars) ==
    IF \A i \in DOMAIN chars : chars[i] # ","
    THEN << chars >>
    ELSE LET i == CHOOSE j \in DOMAIN chars :
                      chars[j] = "," /\ \A k \in 1..(j - 1) : chars[k] # ","
         IN  << SubSeq(chars, 1, i - 1) >> \o split(SubSeq(chars, i + 1, Len(chars)))

\* str.strip()
RECURSIVE strip(_)
strip(chars) ==
    IF chars = << >> THEN chars
    ELSE IF Head(chars) = " " THEN strip(Tail(chars))
    ELSE IF chars[Len(chars)] = " " THEN strip(SubSeq(chars, 1, Len(chars) - 1))
    ELSE chars

\* [url for url in str(urls_cell).split(',')]: every piece kept as it is.
urlsUntrimmed(cell) ==
    IF cell.kind = "nan" THEN << >>
    ELSE split(cell.chars)

\* [url.strip() for url in str(urls_cell).split(',') if url.strip()], nothing
\* for a NaN cell.
urls(cell) ==
    IF cell.kind = "nan" THEN << >>
    ELSE LET pieces == split(cell.chars)
         IN  SelectSeq([ i \in DOMAIN pieces |-> strip(pieces[i]) ], LAMBDA u : u # << >>)

\* url_counts[url] = url_counts.get(url, 0) + 1, the dict keeping the order
\* in which the keys were first set.
RECURSIVE Tally(_, _)
Tally(url_counts, found) ==
    IF found = << >> THEN url_counts
    ELSE LET url == Head(found)
             known == \E i \in DOMAIN url_counts : url_counts[i].url = url
             counted == IF known
                        THEN [ i \in DOMAIN url_counts |->
                                 IF url_counts[i].url = url
                                 THEN [ url |-> url, key |-> url_counts[i].key + 1 ]
                                 ELSE url_counts[i] ]
                        ELSE Append(url_counts, [ url |-> url, key |-> 1 ])
         IN  Tally(counted, Tail(found))

RECURSIVE AllUrls(_)
AllUrls(rows) ==
    IF rows = << >> THEN << >> ELSE urls(Head(rows).urls) \o AllUrls(Tail(rows))

\* sorted(..., key=lambda x: x[1], reverse=True): equal counts keep their
\* order.
RECURSIVE InsertDesc(_, _)
InsertDesc(sorted, x) ==
    IF sorted = << >> THEN << x >>
    ELSE IF Head(sorted).key >= x.key
         THEN << Head(sorted) >> \o InsertDesc(Tail(sorted), x)
         ELSE << x >> \o sorted

RECURSIVE SortDesc(_)
SortDesc(s) ==
    IF s = << >> THEN << >>
    ELSE InsertDesc(SortDesc(SubSeq(s, 1, Len(s) - 1)), s[Len(s)])

url_stats(tbl) ==
    LET url_counts == Tally(<< >>, AllUrls(tbl.rows))
        sorted == SortDesc(url_counts)
    IN  IF Empty(tbl) THEN [ outcome |-> "empty" ]
        ELSE IF url_counts = << >> THEN [ outcome |-> "no_urls" ]
        ELSE [ outcome |-> "rendered",
               url_counts |-> url_counts,
               top_urls |-> SubSeq(sorted, 1, IF Len(sorted) < TopUrls THEN Len(sorted) ELSE TopUrls),
               total_urls |-> SumSeq([ i \in DOMAIN url_counts |-> url_counts[i].key ]),
               unique_urls |-> Len(url_counts) ]

FollowUrls == Followed(url_stats(df_filtered))

\* At most MaxCellRows rows holding at most MaxUrlChars characters in all.
InitUrls ==
    \E k \in 0..MaxCellRows : \E lens \in [ 1..k -> 0..MaxUrlChars ] :
        /\ SumSeq(lens) <= MaxUrlChars
        /\ \E text \in [ 1..SumSeq(lens) -> Chars ] :
             Given(Table(AllColumns, UrlColumn(text, lens)))

SpecUrls == InitUrls /\ [][FollowUrls]_vars

\* The places of a cell where a token equal to u stands: a stretch without
\* comma, bounded by commas or the ends of the cell, which is u between
\* blanks.
IsToken(chars, lo, hi, u) ==
    /\ lo = 1 \/ chars[lo - 1] = ","
    /\ hi = Len(chars) \/ chars[hi + 1] = ","
    /\ \A i \in lo..hi : chars[i] # ","
    /\ \E a \in lo..hi, b \in lo..hi :
         /\ SubSeq(chars, a, b) = u
         /\ \A i \in lo..(a - 1) : chars[i] = " "
         /\ \A i \in (b + 1)..hi : chars[i] = " "

TokensIn(cell, u) ==
    IF cell.kind = "nan" THEN 0
    ELSE Cardinality({ p \in (1..Len(cell.chars)) \X (1..Len(cell.chars)) :
                         p[1] <= p[2] /\ IsToken(cell.chars, p[1], p[2], u) })

Occurrences(rows, u) == SumSeq([ i \in DOMAIN rows |-> TokensIn(rows[i].urls, u) ])

\* A URL string: not empty, without comma, not starting or ending with a
\* blank.
IsUrlString(u) ==
    /\ u # << >>
    /\ \A i \in DOMAIN u : u[i] # ","
    /\ u[1] # " "
    /\ u[Len(u)] # " "

\* Every string that stands somewhere in a cell.
CellStrings ==
    UNION { IF df_filtered.rows[i].urls.kind = "nan" THEN {}
            ELSE LET chars == df_filtered.rows[i].urls.chars
                 IN  { SubSeq(chars, p[1], p[2]) :
                         p \in { q \in (DOMAIN chars) \X (DOMAIN chars) : q[1] <= q[2] } }
            : i \in DOMAIN df_filtered.rows }

TallyOf(u) ==
    IF \E i \in DOMAIN stats.url_counts : stats.url_counts[i].url = u
    THEN (CHOOSE e \in { stats.url_counts[i] : i \in DOMAIN stats.url_counts } : e.url = u).key
    ELSE 0

\* C16: the tally of every URL string is the number of trimmed, non-empty
\* comma-separated tokens equal to it over all the cells, repeats inside one
\* cell counted each; the total is the sum of the tallies and the number of
\* distinct URLs the number of distinct tokens.
C16_UrlTally ==
    LET rows == df_filtered.rows
        found == { u \in CellStrings : IsUrlString(u) /\ Occurrences(rows, u) > 0 }
    IN  (pc = "done" /\ Len(rows) > 0)
        => IF found = {}
           THEN stats.outcome = "no_urls"
           ELSE /\ stats.outcome = "rendered"
                /\ { stats.url_counts[i].url : i \in DOMAIN stats.url_counts } = found
                /\ \A u \in found : TallyOf(u) = Occurrences(rows, u)
                /\ \A i, j \in DOMAIN stats.url_counts :
                     stats.url_counts[i].url = stats.url_counts[j].url => i = j
                /\ stats.unique_urls = Cardinality(found)
                /\ stats.total_urls = SumSeq([ i \in DOMAIN stats.url_counts |->
                                                 stats.url_counts[i].key ])

\* The cell "a,a,b": 2 for a, 1 for b.
C16_Witness ==
    /\ pc = "done"
    /\ stats.outcome = "rendered"
    /\ \E i \in DOMAIN df_filtered.rows :
         df_filtered.rows[i].urls = TextCell(<< "a", ",", "a", ",", "b" >>)
    /\ TallyOf(<< "a" >>) = 2
    /\ TallyOf(<< "b" >>) = 1
    /\ stats.total_urls = 3
    /\ stats.unique_urls = 2

\* ------------------------------------------------- display_hot_topic_stats
HotTopicNames == { Null, 1, 2 }

HotTopicRows == [ is_hot_topic : BOOLEAN, hot_topic_name : HotTopicNames ]

\* df[df['is_hot_topic']]
Flagged(rows) == SelectSeq(rows, LAMBDA r : r.is_hot_topic)

\* df['hot_topic_name'].value_counts(): the names of all rows, flagged or
\* not.
hot_topic_countsAll(rows) ==
    LET names == { rows[i].hot_topic_name : i \in DOMAIN rows } \ { Null }
    IN  { [ name |-> n,
            key |-> Len(SelectSeq(rows, LAMBDA r : r.hot_topic_name = n)) ]
          : n \in names }

\* df[df['is_hot_topic']]['hot_topic_name'].value_counts(): a row without
\* name is counted under no name.
hot_topic_counts(rows) ==
    LET flagged == Flagged(rows)
        names == { flagged[i].hot_topic_name : i \in DOMAIN flagged } \ { Null }
    IN  { [ name |-> n,
            key |-> Len(SelectSeq(flagged, LAMBDA r : r.hot_topic_name = n)) ]
          : n \in names }

\* The figures of the panel, given the order value_counts lists the names in.
hot_topic_stats(tbl, order) ==
    LET total_conversations == Len(tbl.rows)
        hot_topic_conversations == Len(Flagged(tbl.rows))
        total_hot_topics == SumSeq([ i \in DOMAIN order |-> order[i].key ])
    IN  IF \/ Empty(tbl)
           \/ ~HasColumn(tbl, "is_hot_topic")
           \/ ~HasColumn(tbl, "hot_topic_name")
        THEN [ outcome |-> "silent" ]
        ELSE IF hot_topic_conversations = 0 THEN [ outcome |-> "no_hot_topic" ]
        ELSE [ outcome |-> "rendered",
               hot_topic_conversations |-> hot_topic_conversations,
               hot_topic_rate |-> Num(hot_topic_conversations * 100, total_conversations),
               total_hot_topics |-> total_hot_topics,
               table |-> [ i \in DOMAIN order |->
                             [ rang |-> i,
                               name |-> order[i].name,
                               clics |-> order[i].key,
                               pct_hot_topics |-> Percent1(order[i].key, total_hot_topics),
                               pct_conversations |-> Percent1(order[i].key, total_conversations) ] ] ]

FollowHotTopic ==
    \E order \in DescOrders(hot_topic_counts(df_filtered.rows)) :
        Followed(hot_topic_stats(df_filtered, order))

InitHotTopic == \E t \in TablesOf(HotTopicRows, MaxRecords) : Given(t)

SpecHotTopic == InitHotTopic /\ [][FollowHotTopic]_vars

\* The number of flagged rows named n, counted row by row.
Clicks(rows, n) ==
    Cardinality({ i \in DOMAIN rows : rows[i].is_hot_topic /\ rows[i].hot_topic_name = n })

FlaggedRows(rows) == Cardinality({ i \in DOMAIN rows : rows[i].is_hot_topic })

FlaggedNames(rows) ==
    { rows[i].hot_topic_name : i \in { j \in DOMAIN rows : rows[j].is_hot_topic } } \ { Null }

ListedTotal == SumSeq([ i \in DOMAIN stats.table |-> stats.table[i].clics ])

\* One line per name of the flagged rows, ranked 1..n by non-increasing
\* frequency, with its two percentages.
HotTopicLines ==
    LET rows == df_filtered.rows
    IN  /\ { stats.table[i].name : i \in DOMAIN stats.table } = FlaggedNames(rows)
        /\ Len(stats.table) = Cardinality(FlaggedNames(rows))
        /\ \A i \in DOMAIN stats.table :
             /\ stats.table[i].rang = i
             /\ stats.table[i].clics = Clicks(rows, stats.table[i].name)
             /\ i > 1 => stats.table[i - 1].clics >= stats.table[i].clics
             /\ IsPercent1(stats.table[i].pct_hot_topics, stats.table[i].clics, ListedTotal)
             /\ IsPercent1(stats.table[i].pct_conversations, stats.table[i].clics, Len(rows))
        /\ stats.total_hot_topics = ListedTotal

\* C20 as stated: the lines as above, and the listed frequencies add up to
\* the number of rows flagged is_hot_topic.
C20_Original ==
    (pc = "done" /\ stats.outcome = "rendered")
    => /\ HotTopicLines
       /\ ListedTotal = FlaggedRows(df_filtered.rows)

\* C20 amended: the lines as above; the listed frequencies add up to the
\* number of flagged rows that have a name, which is the number of flagged
\* rows only when every flagged row has one.
C20_Amended ==
    LET rows == df_filtered.rows
        named == Cardinality({ i \in DOMAIN rows :
                                 rows[i].is_hot_topic /\ rows[i].hot_topic_name # Null })
    IN  (pc = "done" /\ stats.outcome = "rendered")
        => /\ HotTopicLines
           /\ ListedTotal = named
           /\ stats.hot_topic_conversations = FlaggedRows(rows)
           /\ ListedTotal <= FlaggedRows(rows)
           /\ (ListedTotal = FlaggedRows(rows)) <=>
                (\A i \in DOMAIN rows : rows[i].is_hot_topic => rows[i].hot_topic_name # Null)

\* Three flagged rows, one of them without name: the name of the other two
\* has all the hot topics listed and two thirds of the conversations.
C20_Witness ==
    /\ pc = "done"
    /\ stats.outcome = "rendered"
    /\ FlaggedRows(df_filtered.rows) = 3
    /\ Len(stats.table) = 1
    /\ stats.table[1].clics = 2
    /\ ListedTotal = 2
    /\ stats.table[1].pct_hot_topics = 1000
    /\ stats.table[1].pct_conversations = 667

\* -------------------------------------------- display_conversation_metrics
\* A date cell after main's parsing: a timestamp at midnight, or NaT for an
\* empty field.
Timestamp(d) == [ kind |-> "ts", day |-> d, time |-> 0 ]
NaT == [ kind |-> "nat", day |-> 0, time |-> 0 ]

ParsedDates == { Timestamp(d) : d \in Days } \cup { NaT }

\* conversationId: missing or present.
ConversationIds == { Null, 1 }

ConversationRows ==
    [ date : ParsedDates, conversationId : ConversationIds, turn_count : Counts ]

TurnSum(rows) == SumSeq([ i \in DOMAIN rows |-> rows[i].turn_count ])

\* df.groupby('date').agg({'conversationId': 'size', 'turn_count': 'sum'}):
\* every row of the day counted.
daily_dataSize(rows) ==
    LET dated == SelectSeq(normalize(rows), LAMBDA r : r.date.kind # "nat")
        days == SortedKeys({ << dated[i].date.day >> : i \in DOMAIN dated })
        Of(d) == SelectSeq(dated, LAMBDA r : r.date.day = d)
    IN  [ i \in DOMAIN days |->
            [ date |-> days[i][1],
              conversationId |-> Len(Of(days[i][1])),
              turn_count |-> TurnSum(Of(days[i][1])) ] ]

\* df.groupby('date').agg({'conversationId': 'count', 'turn_count': 'sum'})
\* .sort_values('date'): rows without date are in no group, 'count' counts
\* the cells that are not missing.
daily_data(rows) ==
    LET dated == SelectSeq(normalize(rows), LAMBDA r : r.date.kind # "nat")
        days == SortedKeys({ << dated[i].date.day >> : i \in DOMAIN dated })
        Of(d) == SelectSeq(dated, LAMBDA r : r.date.day = d)
    IN  [ i \in DOMAIN days |->
            [ date |-> days[i][1],
              conversationId |->
                  Len(SelectSeq(Of(days[i][1]), LAMBDA r : r.conversationId # Null)),
              turn_count |-> TurnSum(Of(days[i][1])) ] ]

conversation_metrics(tbl) ==
    LET total_conversations == Len(tbl.rows)
        total_messages == TurnSum(tbl.rows)
    IN  IF Empty(tbl) THEN [ outcome |-> "empty" ]
        ELSE IF daily_data(tbl.rows) = << >>
        THEN [ outcome |-> "no_daily",
               total_conversations |-> total_conversations,
               total_messages |-> total_messages ]
        ELSE [ outcome |-> "rendered",
               total_conversations |-> total_conversations,
               total_messages |-> total_messages,
               daily_data |-> daily_data(tbl.rows) ]

FollowConversation == Followed(conversation_metrics(df_filtered))

InitConversation == \E t \in TablesOf(ConversationRows, MaxRecords) : Given(t)

SpecConversation == InitConversation /\ [][FollowConversation]_vars

\* One line per calendar day of the rows that have a date, in strictly
\* ascending order, and the reported totals.
DailyLines ==
    LET rows == df_filtered.rows
        daily == stats.daily_data
    IN  /\ { daily[i].date : i \in DOMAIN daily }
             = { rows[i].date.day : i \in { j \in DOMAIN rows : rows[j].date.kind = "ts" } }
        /\ \A i, j \in DOMAIN daily : i < j => daily[i].date < daily[j].date
        /\ stats.total_conversations = Len(rows)
        /\ stats.total_messages = TurnSum(rows)

DailyConversations ==
    SumSeq([ i \in DOMAIN stats.daily_data |-> stats.daily_data[i].conversationId ])

DailyMessages ==
    SumSeq([ i \in DOMAIN stats.daily_data |-> stats.daily_data[i].turn_count ])

\* C21 as stated: one line per distinct calendar day in strictly ascending
\* order, the per-day conversation counts add up to the reported total of
\* conversations (the row count) and the per-day turn_count sums to the
\* reported total of messages.
C21_Original ==
    (pc = "done" /\ stats.outcome = "rendered")
    => /\ DailyLines
       /\ DailyConversations = stats.total_conversations
       /\ DailyMessages = stats.total_messages

\* C21 amended: the lines as above for the days of the rows that have a
\* date; the per-day counts add up to the number of rows that have a date
\* and a conversationId, the per-day sums to the turn_count of the rows that
\* have a date; both are the reported totals when no row lacks either.
C21_Amended ==
    LET rows == df_filtered.rows
        dated == SelectSeq(rows, LAMBDA r : r.date.kind = "ts")
        counted == SelectSeq(dated, LAMBDA r : r.conversationId # Null)
    IN  (pc = "done" /\ stats.outcome = "rendered")
        => /\ DailyLines
           /\ DailyConversations = Len(counted)
           /\ DailyMessages = TurnSum(dated)
           /\ Len(counted) = Len(rows) =>
                /\ DailyConversations = stats.total_conversations
                /\ DailyMessages = stats.total_messages

\* Two days given out of order, and a row without conversationId.
C21_Witness ==
    /\ pc = "done"
    /\ stats.outcome = "rendered"
    /\ Len(df_filtered.rows) = 3
    /\ df_filtered.rows[1].date.day > df_filtered.rows[2].date.day
    /\ df_filtered.rows[2].date.kind = "ts"
    /\ Len(stats.daily_data) = 2
    /\ DailyConversations = 2
    /\ DailyMessages = stats.total_messages
    /\ stats.total_messages > 2

\* ----------------------------------------------------- analyze_formulaires
MaxTextLen == 3
MaxForms == 2

\* The characters of a text: a letter in both cases and another letter.
Letters == { "a", "A", "b" }

\* str.lower(), character by character.
lower(chars) == [ i \in DOMAIN chars |-> IF chars[i] = "A" THEN "a" ELSE chars[i] ]

Texts == UNION { [ 1..k -> Letters ] : k \in 0..MaxTextLen }

Form(name, start_phrase, end_phrase) ==
    [ name |-> name, start_phrase |-> start_phrase, end_phrase |-> end_phrase ]

\* Form definitions: empty phrases, a start phrase that overlaps itself, a
\* phrase in capitals.
Forms ==
    { Form(1, << >>, << >>),
      Form(2, << >>, << "b" >>),
      Form(3, << "A" >>, << >>),
      Form(4, << "a", "a" >>, << "b" >>),
      Form(5, << "a", "a" >>, << >>) }

FormLists == UNION { [ 1..k -> Forms ] : k \in 0..MaxForms }

\* s.find(sub, from): the lowest position p >= from (counted from 0) at
\* which sub stands in s, or -1.
find(s, sub, from) ==
    LET at == { p \in from..(Len(s) - Len(sub)) : SubSeq(s, p + 1, p + Len(sub)) = sub }
    IN  IF at = {} THEN 0 - 1 ELSE CHOOSE p \in at : \A q \in at : p <= q

\* s.count(sub) from a position on: occurrences that do not overlap, an
\* empty sub standing between all characters and at both ends.
RECURSIVE count(_, _, _)
count(s, sub, from) ==
    IF sub = << >> THEN (IF from <= Len(s) THEN Len(s) - from + 1 ELSE 0)
    ELSE IF find(s, sub, from) = 0 - 1 THEN 0
    ELSE 1 + count(s, sub, find(s, sub, from) + Len(sub))

\* The locals at the call: nothing analysed yet.
Called(text, formulaires) ==
    [ text |-> text,
      formulaires |-> formulaires,
      index |-> 1,
      name |-> 0,
      start |-> << >>,
      end |-> << >>,
      triggers |-> 0,
      completions |-> 0,
      text_lower |-> << >>,
      last_pos |-> 0,
      results |-> << >> ]

InitScan ==
    /\ pc = "for"
    /\ file = NoFile
    /\ df = NoTable
    /\ date_range = << >>
    /\ df_filtered = NoTable
    /\ valid = "unchecked"
    /\ exc = "none"
    /\ out = << >>
    /\ called = << >>
    /\ failed = << >>
    /\ stats = NoStats
    /\ \E text \in Texts, formulaires \in FormLists : scan = Called(text, formulaires)

ScanUnchanged ==
    UNCHANGED << file, df, date_range, df_filtered, valid, exc, out, called, failed, stats >>

\* for formulaire in formulaires: the phrases, the triggers, the locals of
\* the while loop.
ForNext ==
    /\ pc = "for"
    /\ scan.index <= Len(scan.formulaires)
    /\ LET formulaire == scan.formulaires[scan.index]
       IN  scan' = [ scan EXCEPT
                       !.name = formulaire.name,
                       !.start = lower(formulaire.start_phrase),
                       !.end = lower(formulaire.end_phrase),
                       !.triggers = count(lower(scan.text), lower(formulaire.start_phrase), 0),
                       !.completions = 0,
                       !.text_lower = lower(scan.text),
                       !.last_pos = 0 ]
    /\ pc' = "while"
    /\ ScanUnchanged

\* One turn of the while loop that finds the start phrase, the search going
\* on from where it was found.
WhileFoundSamePlace ==
    /\ pc = "while"
    /\ LET start_pos == find(scan.text_lower, scan.start, scan.last_pos)
           end_pos == find(scan.text_lower, scan.end, start_pos + Len(scan.start))
       IN  /\ start_pos # 0 - 1
           /\ scan' = [ scan EXCEPT
                          !.completions = IF end_pos # 0 - 1 THEN @ + 1 ELSE @,
                          !.last_pos = start_pos ]
    /\ pc' = "while"
    /\ ScanUnchanged

\* One turn of the while loop that finds the start phrase.
WhileFound ==
    /\ pc = "while"
    /\ LET start_pos == find(scan.text_lower, scan.start, scan.last_pos)
           end_pos == find(scan.text_lower, scan.end, start_pos + Len(scan.start))
       IN  /\ start_pos # 0 - 1
           /\ scan' = [ scan EXCEPT
                          !.completions = IF end_pos # 0 - 1 THEN @ + 1 ELSE @,
                          !.last_pos = start_pos + 1 ]
    /\ pc' = "while"
    /\ ScanUnchanged

\* The turn that finds no start phrase: break, results[name] = {...}.
WhileBreak ==
    /\ pc = "while"
    /\ find(scan.text_lower, scan.start, scan.last_pos) = 0 - 1
    /\ scan' = [ scan EXCEPT
                   !.results = [ n \in DOMAIN scan.results \cup { scan.name } |->
                                   IF n = scan.name
                                   THEN [ triggers |-> scan.triggers,
                                          completions |-> scan.completions ]
                                   ELSE scan.results[n] ],
                   !.index = @ + 1 ]
    /\ pc' = "for"
    /\ ScanUnchanged

\* return results
ScanReturn ==
    /\ pc = "for"
    /\ scan.index > Len(scan.formulaires)
    /\ pc' = "returned"
    /\ UNCHANGED scan
    /\ ScanUnchanged

NextScan == ForNext \/ WhileFound \/ WhileBreak \/ ScanReturn

SpecScan == InitScan /\ [][NextScan]_vars

\* The function runs on: nothing but its own steps stands between a call
\* and its return.
SpecScanFair == SpecScan /\ WF_vars(NextScan)

\* C22: for every text and every form, the completions returned are at most
\* the triggers returned, also when occurrences of the start phrase overlap.
C22_CompletionsAtMostTriggers ==
    pc = "returned" =>
        \A n \in DOMAIN scan.results :
            scan.results[n].completions <= scan.results[n].triggers

\* C23: the search position strictly increases at every turn of the loop and
\* the function returns, for every text and every list of forms, empty text
\* and empty phrases included.
C23_Terminates ==
    /\ [][(pc = "while" /\ pc' = "while") => (scan'.last_pos > scan.last_pos)]_vars
    /\ <>(pc = "returned")

\* Returned after a form with an empty end phrase and a form with an empty
\* start phrase, which is found at every position of the text and after it.
C23_Witness ==
    /\ pc = "returned"
    /\ Len(scan.text) > 1
    /\ Len(scan.formulaires) = 2
    /\ scan.formulaires[1].end_phrase = << >>
    /\ scan.formulaires[1].start_phrase # << >>
    /\ scan.formulaires[2].start_phrase = << >>
    /\ scan.last_pos = Len(scan.text) + 1
    /\ DOMAIN scan.results = { 2, 3 }
    /\ scan.results[3].completions > 0
    /\ scan.results[2].triggers = Len(scan.text) + 1

====
